---- MODULE Spec2Model ----
(***************************************************************************)
(* Model of the mass e-mail sender: the CSV recipient loader (load_csv),   *)
(* and the dispatch pipeline (EmailThread.run -> send_emails ->            *)
(* send_emails_smtp / send_emails_ses) of src/utils.py and src/main.py.    *)
(*                                                                         *)
(* Python strings whose content the code inspects (column names, cells,    *)
(* e-mail addresses) are sequences of one-character strings, so that       *)
(* lower(), strip(), "in" and the e-mail regular expression are computed   *)
(* and not assumed.                                                        *)
(***************************************************************************)
EXTENDS Integers, Sequences, FiniteSets, TLC

(***************************************************************************)
(* Bounds of the model.                                                    *)
(***************************************************************************)
\* longest recipient list handed to a dispatch
MaxRecipients == 7
\* recipient lists up to this length are enumerated in every order
MaxShort == 2

(***************************************************************************)
(* Program constants.                                                      *)
(***************************************************************************)
\* failed[:5] and len(failed) - 5 in the aggregate error
MaxListed == 5

(***************************************************************************)
(* Small helpers.                                                          *)
(***************************************************************************)
Min(a, b) == IF a < b THEN a ELSE b

\* dict.get(key, default)
DictGet(d, k, default) == IF k \in DOMAIN d THEN d[k] ELSE default

\* all sequences over S of length at most n
SeqsUpTo(S, n) == UNION {[1..k -> S] : k \in 0..n}

(***************************************************************************)
(* Python string operations, on sequences of characters.                   *)
(***************************************************************************)
LowerLetters == <<"a", "b", "c", "d", "e", "f", "g", "h", "i", "j", "k", "l", "m",
                  "n", "o", "p", "q", "r", "s", "t", "u", "v", "w", "x", "y", "z">>
UpperLetters == <<"A", "B", "C", "D", "E", "F", "G", "H", "I", "J", "K", "L", "M",
                  "N", "O", "P", "Q", "R", "S", "T", "U", "V", "W", "X", "Y", "Z">>
Letters == {LowerLetters[k] : k \in DOMAIN LowerLetters}
           \cup {UpperLetters[k] : k \in DOMAIN UpperLetters}
Digits == {"0", "1", "2", "3", "4", "5", "6", "7", "8", "9"}
Whitespace == {" ", "\t", "\n", "\r"}

LowerChar(c) ==
    IF \E k \in DOMAIN UpperLetters : UpperLetters[k] = c
    THEN LowerLetters[CHOOSE k \in DOMAIN UpperLetters : UpperLetters[k] = c]
    ELSE c

\* str.lower()
Lower(s) == [k \in DOMAIN s |-> LowerChar(s[k])]

\* sub in s
Contains(sub, s) ==
    \E k \in 0..(Len(s) - Len(sub)) : SubSeq(s, k + 1, k + Len(sub)) = sub

\* str.strip()
Strip(s) ==
    LET keep == {k \in DOMAIN s : s[k] \notin Whitespace} IN
    IF keep = {} THEN <<>>
    ELSE SubSeq(s, CHOOSE k \in keep : \A m \in keep : k <= m,
                   CHOOSE k \in keep : \A m \in keep : m <= k)

\* a cell of the data frame: null, or text
NullCell == [null |-> TRUE, text |-> <<>>]
TextCell(t) == [null |-> FALSE, text |-> t]

\* str(row[col])
PyStr(cell) == IF cell.null THEN <<"N", "o", "n", "e">> ELSE cell.text

(***************************************************************************)
(* is_valid_email: re.match of                                             *)
(*   ^[a-zA-Z0-9._%+-]+@[a-zA-Z0-9.-]+\.[a-zA-Z]{2,}$                      *)
(***************************************************************************)
LocalChars == Letters \cup Digits \cup {".", "_", "%", "+", "-"}
DomainChars == Letters \cup Digits \cup {".", "-"}

\* the pattern without its anchors matches all of t
PatternMatches(t) ==
    \E a \in 2..Len(t) : \E d \in (a + 2)..(Len(t) - 2) :
        /\ \A k \in 1..(a - 1) : t[k] \in LocalChars
        /\ t[a] = "@"
        /\ \A k \in (a + 1)..(d - 1) : t[k] \in DomainChars
        /\ t[d] = "."
        /\ \A k \in (d + 1)..Len(t) : t[k] \in Letters

\* $ matches at the end of the string and before a newline that ends it
is_valid_email(s) ==
    \/ PatternMatches(s)
    \/ /\ Len(s) > 0
       /\ s[Len(s)] = "\n"
       /\ PatternMatches(SubSeq(s, 1, Len(s) - 1))

(***************************************************************************)
(* Recipients handed to a dispatch.                                        *)
(***************************************************************************)
EmailA == <<"a", "@", "b", ".", "c", "c">>
EmailB == <<"c", "@", "b", ".", "c", "c">>

RecipientA == [email |-> EmailA, first_name |-> <<"A">>, last_name |-> <<"B">>]
RecipientB == [email |-> EmailB, first_name |-> <<"C">>, last_name |-> <<>>]

RecipientPool == {RecipientA, RecipientB}

\* a long list with repeated recipients
Roster == [k \in 1..MaxRecipients |-> IF k % 3 = 0 THEN RecipientB ELSE RecipientA]

RecipientLists ==
    SeqsUpTo(RecipientPool, MaxShort) \cup {SubSeq(Roster, 1, n) : n \in 0..MaxRecipients}

\* settings dictionaries: the SES variant, the SMTP variant with a recognised,
\* an unrecognised or no provider key
SettingsSet ==
    {[provider |-> "ses"]}
    \cup {[provider |-> p, use_tls |-> t] : p \in {"smtp", "imap"}, t \in BOOLEAN}
    \cup {[use_tls |-> t] : t \in BOOLEAN}
    \cup {[provider |-> "smtp"]}

VARIABLES
    recipients,   \* EmailThread.recipients: the list handed to send_emails
    settings,     \* EmailThread.settings
    letter,       \* EmailThread.subject and EmailThread.body_template
    hasCallback,  \* whether a progress callback is supplied
    pc,           \* position of the dispatch call
    called,       \* transports invoked by send_emails, with the list passed
    i,            \* number of loop iterations completed
    failed,       \* the transport's local list "failed"
    progress,     \* events emitted on the progress callback
    conn,         \* SMTP server object: "none", "open", "closed"
    wire,         \* calls made on the mail library, in order, with their result
    outcome,      \* how send_emails ended
    finished,     \* EmailThread.finished signals emitted
    file,            \* the CSV file given to load_csv: readable, columns, rows
    lpc,             \* position of the load_csv call
    ci,              \* number of columns the resolution loop has visited
    email_col,       \* load_csv's local email_col (<<>> stands for None)
    first_name_col,  \* load_csv's local first_name_col
    last_name_col,   \* load_csv's local last_name_col
    ri,              \* number of rows the conversion loop has visited
    loaded,          \* load_csv's local list "recipients"
    loadResult,      \* how load_csv ended
    template,        \* format_email_body's argument template
    recipient,       \* format_email_body's argument recipient
    rpc,             \* position of the format_email_body call
    body,            \* format_email_body's local body
    winRecipients,   \* MainWindow.recipients
    lastGood,        \* what the most recent load_csv call that returned gave
    countLabel,      \* the number recipients_count_label shows (-1: "No recipients loaded")
    subjectInput,    \* text of subject_input
    bodyInput,       \* text of body_input
    widgets,         \* the fields of the settings tab
    sendEnabled,     \* send_btn.isEnabled()
    confirm,         \* answer to the last "Confirm Send" question
    handled,         \* the current thread's finished signal reached sending_finished
    overlap          \* a thread was started while another was still running

dvars == <<recipients, settings, letter, hasCallback, pc, called, i, failed, progress,
           conn, wire, outcome, finished>>

lvars == <<file, lpc, ci, email_col, first_name_col, last_name_col, ri, loaded,
           loadResult>>

rvars == <<template, recipient, rpc, body>>

uvars == <<winRecipients, lastGood, countLabel, subjectInput, bodyInput, widgets, sendEnabled,
           confirm, handled, overlap>>

vars == <<dvars, lvars, rvars, uvars>>

total == Len(recipients)

(***************************************************************************)
(* Values built by the code.                                               *)
(***************************************************************************)
\* f"{recipient['email']}: {str(e)}"
FailedEntry(email, reason) == <<email, ": ", reason>>

\* f"Sent to {recipient['email']} ({i+1}/{total})" and f"Failed: {recipient['email']}"
SentMessage(email, k, n) == <<"Sent to ", email, " (", k, "/", n, ")">>
FailedMessage(email) == <<"Failed: ", email>>

\* the event carries the zero-based loop index
ProgressEventZeroBased(idx, n, message) == [current |-> idx, total |-> n, message |-> message]

\* progress_callback.emit(i + 1, total, message)
ProgressEvent(idx, n, message) == [current |-> idx + 1, total |-> n, message |-> message]

\* if progress_callback: progress_callback.emit(...)
Emit(events, idx, n, message) ==
    IF hasCallback THEN Append(events, ProgressEvent(idx, n, message)) ELSE events

\* the overflow line is added from five failures on
AggregateErrorOffByOne(f) ==
    <<"Failed to send to ", Len(f), " recipients:",
      SubSeq(f, 1, Min(MaxListed, Len(f))),
      IF Len(f) >= MaxListed THEN <<"... and ", Len(f) - MaxListed, " more">> ELSE <<>> >>

\* the aggregate error raised after the loop
AggregateError(f) ==
    <<"Failed to send to ", Len(f), " recipients:",
      SubSeq(f, 1, Min(MaxListed, Len(f))),
      IF Len(f) > MaxListed THEN <<"... and ", Len(f) - MaxListed, " more">> ELSE <<>> >>

SmtpConnectError(cause) == <<"Failed to connect to SMTP server: ", cause>>
SesImportError == <<"boto3 is required for AWS SES. Install it with: pip install boto3">>
SesClientError(cause) == <<"Failed to create AWS SES client: ", cause>>

Raised(text) == [how |-> "raised", text |-> text]
Returned == [how |-> "returned", text |-> <<>>]
NotEnded == [how |-> "running", text |-> <<>>]

\* one call on smtplib / boto3, as the library sees it
Call(name, ok, to, reason) == [call |-> name, ok |-> ok, to |-> to, reason |-> reason]

\* reasons a per-recipient submission can fail with
SmtpReasons == {"550 rejected"}
SesClientReasons == {"MessageRejected"}
SesOtherReasons == {"timed out"}

(***************************************************************************)
(* send_emails: the dispatch entry point.                                  *)
(***************************************************************************)
\* every provider other than "smtp" is sent through SES
TransportDefaultSes(s) == IF DictGet(s, "provider", "smtp") = "smtp" THEN "smtp" ELSE "ses"

\* the transport send_emails selects
Transport(s) == IF DictGet(s, "provider", "smtp") = "ses" THEN "ses" ELSE "smtp"

SendEmails ==
    /\ pc = "run"
    /\ called' = Append(called, [transport |-> Transport(settings), recipients |-> recipients])
    /\ pc' = IF Transport(settings) = "ses" THEN "ses_import" ELSE "smtp_connect"
    /\ UNCHANGED <<lvars, rvars, uvars>>
    /\ UNCHANGED <<recipients, settings, letter, hasCallback, i, failed, progress, conn, wire,
                   outcome, finished>>

(***************************************************************************)
(* send_emails_smtp.                                                       *)
(***************************************************************************)
\* the except clause swallows the error and the function goes on to the loop
SmtpConnectIgnored(cause) ==
    /\ pc' = "smtp_loop"
    /\ UNCHANGED outcome

\* leaving the connect block through its except clause
SmtpConnectFailed(cause) ==
    /\ outcome' = Raised(SmtpConnectError(cause))
    /\ pc' = "ended"

\* the encryption negotiation is left out
AfterConnectNoTls(s) == "smtp_login"

\* if settings["use_tls"]: ... server.starttls()
AfterConnect(s) == IF s["use_tls"] THEN "smtp_starttls" ELSE "smtp_login"

\* settings["use_tls"] and smtplib.SMTP(server, port)
SmtpConnect ==
    /\ pc = "smtp_connect"
    /\ IF "use_tls" \notin DOMAIN settings
       THEN /\ SmtpConnectFailed("KeyError")
            /\ UNCHANGED <<conn, wire>>
       ELSE \E ok \in BOOLEAN :
              /\ wire' = Append(wire, Call("SMTP", ok, <<>>, ""))
              /\ IF ok
                 THEN /\ conn' = "open"
                      /\ pc' = AfterConnect(settings)
                      /\ UNCHANGED outcome
                 ELSE /\ SmtpConnectFailed("connect")
                      /\ UNCHANGED conn
    /\ UNCHANGED <<lvars, rvars, uvars>>
    /\ UNCHANGED <<recipients, settings, letter, hasCallback, called, i, failed, progress, finished>>

\* server.starttls()
SmtpStartTls ==
    /\ pc = "smtp_starttls"
    /\ \E ok \in BOOLEAN :
         /\ wire' = Append(wire, Call("starttls", ok, <<>>, ""))
         /\ IF ok
            THEN /\ pc' = "smtp_login"
                 /\ UNCHANGED outcome
            ELSE SmtpConnectFailed("starttls")
    /\ UNCHANGED <<lvars, rvars, uvars>>
    /\ UNCHANGED <<recipients, settings, letter, hasCallback, called, i, failed, progress, conn,
                   finished>>

\* server.login(sender_email, sender_password)
SmtpLogin ==
    /\ pc = "smtp_login"
    /\ \E ok \in BOOLEAN :
         /\ wire' = Append(wire, Call("login", ok, <<>>, ""))
         /\ IF ok
            THEN /\ pc' = "smtp_loop"
                 /\ UNCHANGED outcome
            ELSE SmtpConnectFailed("login")
    /\ UNCHANGED <<lvars, rvars, uvars>>
    /\ UNCHANGED <<recipients, settings, letter, hasCallback, called, i, failed, progress, conn,
                   finished>>

\* a failed attempt ends the loop
NextIndexAbort(idx, ok) == IF ok THEN idx + 1 ELSE total

\* the index the loop goes on with after the attempt for recipient idx + 1
NextIndex(idx, ok) == idx + 1

\* a failure replaces the list instead of extending it
FailedAfterOverwrite(f, email, ok, reason) ==
    IF ok THEN f ELSE <<FailedEntry(email, reason)>>

\* the list "failed" after one attempt
FailedAfter(f, email, ok, reason) ==
    IF ok THEN f ELSE Append(f, FailedEntry(email, reason))

\* the progress events after one attempt
ProgressAfter(events, idx, n, email, ok) ==
    Emit(events, idx, n, IF ok THEN SentMessage(email, idx + 1, n) ELSE FailedMessage(email))

\* one iteration of the SMTP loop: server.send_message(msg) and its handler
SmtpSend ==
    /\ pc = "smtp_loop"
    /\ i < total
    /\ \E ok \in BOOLEAN, reason \in SmtpReasons :
         LET email == recipients[i + 1].email IN
         /\ wire' = Append(wire, Call("send_message", ok, email, IF ok THEN "" ELSE reason))
         /\ failed' = FailedAfter(failed, email, ok, reason)
         /\ progress' = ProgressAfter(progress, i, total, email, ok)
         /\ i' = NextIndex(i, ok)
    /\ UNCHANGED <<lvars, rvars, uvars>>
    /\ UNCHANGED <<recipients, settings, letter, hasCallback, pc, called, conn, outcome, finished>>

\* the state of the server object after the finally clause
AfterQuit(c) == "closed"

\* finally: server.quit()
SmtpQuit ==
    /\ pc = "smtp_loop"
    /\ i >= total
    /\ wire' = Append(wire, Call("quit", TRUE, <<>>, ""))
    /\ conn' = AfterQuit(conn)
    /\ pc' = "smtp_report"
    /\ UNCHANGED <<lvars, rvars, uvars>>
    /\ UNCHANGED <<recipients, settings, letter, hasCallback, called, i, failed, progress, outcome,
                   finished>>

\* if failed: raise Exception(...)
Report(f) == IF f # <<>> THEN Raised(AggregateError(f)) ELSE Returned

SmtpReport ==
    /\ pc = "smtp_report"
    /\ outcome' = Report(failed)
    /\ pc' = "ended"
    /\ UNCHANGED <<lvars, rvars, uvars>>
    /\ UNCHANGED <<recipients, settings, letter, hasCallback, called, i, failed, progress, conn,
                   wire, finished>>

(***************************************************************************)
(* send_emails_ses.                                                        *)
(***************************************************************************)
\* import boto3 / from botocore.exceptions import ClientError
SesImport ==
    /\ pc = "ses_import"
    /\ \E ok \in BOOLEAN :
         /\ wire' = Append(wire, Call("import boto3", ok, <<>>, ""))
         /\ IF ok
            THEN /\ pc' = "ses_client"
                 /\ UNCHANGED outcome
            ELSE /\ outcome' = Raised(SesImportError)
                 /\ pc' = "ended"
    /\ UNCHANGED <<lvars, rvars, uvars>>
    /\ UNCHANGED <<recipients, settings, letter, hasCallback, called, i, failed, progress, conn,
                   finished>>

\* boto3.client("ses", ...)
SesClient ==
    /\ pc = "ses_client"
    /\ \E ok \in BOOLEAN :
         /\ wire' = Append(wire, Call("client", ok, <<>>, ""))
         /\ IF ok
            THEN /\ pc' = "ses_loop"
                 /\ UNCHANGED outcome
            ELSE /\ outcome' = Raised(SesClientError("client"))
                 /\ pc' = "ended"
    /\ UNCHANGED <<lvars, rvars, uvars>>
    /\ UNCHANGED <<recipients, settings, letter, hasCallback, called, i, failed, progress, conn,
                   finished>>

\* what ses_client.send_email can do: return, raise ClientError, raise another exception
SesResults ==
    {[ok |-> TRUE, exc |-> "none", reason |-> ""]}
    \cup {[ok |-> FALSE, exc |-> "ClientError", reason |-> r] : r \in SesClientReasons}
    \cup {[ok |-> FALSE, exc |-> "Exception", reason |-> r] : r \in SesOtherReasons}

\* one iteration of the SES loop: ses_client.send_email(...) and its two handlers
SesSend ==
    /\ pc = "ses_loop"
    /\ i < total
    /\ \E res \in SesResults :
         LET email == recipients[i + 1].email IN
         /\ wire' = Append(wire, Call("send_email", res.ok, email, IF res.ok THEN "" ELSE res.reason))
         /\ failed' = FailedAfter(failed, email, res.ok, res.reason)
         /\ progress' = ProgressAfter(progress, i, total, email, res.ok)
         /\ i' = NextIndex(i, res.ok)
    /\ UNCHANGED <<lvars, rvars, uvars>>
    /\ UNCHANGED <<recipients, settings, letter, hasCallback, pc, called, conn, outcome, finished>>

SesReport ==
    /\ pc = "ses_loop"
    /\ i >= total
    /\ outcome' = Report(failed)
    /\ pc' = "ended"
    /\ UNCHANGED <<lvars, rvars, uvars>>
    /\ UNCHANGED <<recipients, settings, letter, hasCallback, called, i, failed, progress, conn,
                   wire, finished>>

(***************************************************************************)
(* The CSV files given to load_csv.                                        *)
(***************************************************************************)
\* most columns of a file
MaxCols == 4
\* most rows of a file
MaxRows == 3

\* column names: matching one role, several roles, or none
ColEmail == <<"E", "m", "a", "i", "l">>
ColEMail == <<"E", "-", "M", "a", "i", "l">>
ColFirstName == <<"F", "i", "r", "s", "t", "N", "a", "m", "e">>
ColFirst == <<"F", "i", "r", "s", "t">>
ColLastName == <<"l", "a", "s", "t", "_", "n", "a", "m", "e">>
ColFirstLastName == <<"f", "i", "r", "s", "t", "_", "l", "a", "s", "t", "_", "n", "a", "m", "e">>
ColNameEmail == <<"f", "i", "r", "s", "t", "_", "n", "a", "m", "e", "_", "e", "m", "a", "i", "l">>
ColPhone == <<"P", "h", "o", "n", "e">>

ColumnPool == {ColEmail, ColEMail, ColFirstName, ColFirst, ColLastName, ColFirstLastName, ColNameEmail, ColPhone}

\* column headers are distinct
ColumnLists ==
    {c \in SeqsUpTo(ColumnPool, MaxCols) :
        Len(c) >= 1 /\ \A j, k \in DOMAIN c : j # k => c[j] # c[k]}

\* a row whose cell in column j names j, as a valid address
StampLetters == <<"p", "q", "r", "s", "t", "u", "v", "w">>
StampCell(j) == TextCell(<<StampLetters[j], "@", "b", ".", "c", "c">>)
StampRow(n) == [j \in 1..n |-> StampCell(j)]

\* every column order, one row
ColumnFiles ==
    {[readable |-> TRUE, columns |-> c, rows |-> <<StampRow(Len(c))>>] : c \in ColumnLists}

\* cells of an e-mail column: valid, valid once stripped, blank, invalid, null
EmailCells ==
    {TextCell(EmailA), TextCell(<<" ", "c", "@", "b", ".", "c", "c", "\t">>), TextCell(<<" ">>),
     TextCell(<<"a", "@", "b", ".", "c">>), NullCell}
FirstNameCells == {TextCell(<<" ", "A", "l">>), NullCell}
LastNameCells == {TextCell(<<"N", "g">>)}

\* rows of a file with the columns Email, FirstName, last_name
Rows == {<<e, f, l>> : e \in EmailCells, f \in FirstNameCells, l \in LastNameCells}

\* every list of rows under one header
RowFiles ==
    {[readable |-> TRUE, columns |-> <<ColEmail, ColFirstName, ColLastName>>, rows |-> r] :
        r \in SeqsUpTo(Rows, MaxRows)}

UnreadableFile == [readable |-> FALSE, columns |-> <<>>, rows |-> <<>>]

Files == ColumnFiles \cup RowFiles \cup {UnreadableFile}

(***************************************************************************)
(* load_csv.                                                               *)
(***************************************************************************)
NoneCol == <<>>

\* the tests of the if / elif / elif chain, on col.lower()
IsEmailName(c) == Contains(<<"e", "m", "a", "i", "l">>, c) \/ c = <<"e", "-", "m", "a", "i", "l">>
IsFirstName(c) ==
    \/ Contains(<<"f", "i", "r", "s", "t">>, c) /\ Contains(<<"n", "a", "m", "e">>, c)
    \/ c = <<"f", "i", "r", "s", "t", "n", "a", "m", "e">>
IsLastName(c) ==
    \/ Contains(<<"l", "a", "s", "t">>, c) /\ Contains(<<"n", "a", "m", "e">>, c)
    \/ c = <<"l", "a", "s", "t", "n", "a", "m", "e">>

\* the branch of the chain a column takes
Branch(col) ==
    LET col_lower == Lower(col) IN
    IF IsEmailName(col_lower) THEN "email"
    ELSE IF IsFirstName(col_lower) THEN "first_name"
    ELSE IF IsLastName(col_lower) THEN "last_name"
    ELSE "none"

\* a local that is already set is kept: the first column of a role wins
AssignFirst(current, role, col) ==
    IF Branch(col) = role /\ current = NoneCol THEN col ELSE current

\* one of the three locals after the loop body ran for col
Assign(current, role, col) == IF Branch(col) = role THEN col ELSE current

\* except Exception as e: raise Exception(f"Failed to load CSV: {str(e)}")
Wrap(e) == [type |-> "Exception", text |-> <<"Failed to load CSV: ", e.text>>]

\* raise ValueError(f"Missing required columns: ...\nAvailable columns: ...")
MissingColumnsError(missing, columns) ==
    [type |-> "ValueError",
     text |-> <<"Missing required columns: ", missing, "\nAvailable columns: ", columns>>]

\* the failure of pl.read_csv
ReadError == [type |-> "OSError", text |-> <<"read_csv">>]

LoadRaised(e) == [how |-> "raised", error |-> e, value |-> <<>>]
LoadReturned(v) == [how |-> "returned", error |-> [type |-> "none", text |-> <<>>], value |-> v]
LoadRunning == [how |-> "running", error |-> [type |-> "none", text |-> <<>>], value |-> <<>>]

\* df = pl.read_csv(file_path)
LoadRead ==
    /\ lpc = "read"
    /\ IF file.readable
       THEN /\ lpc' = "columns"
            /\ UNCHANGED loadResult
       ELSE /\ loadResult' = LoadRaised(Wrap(ReadError))
            /\ lpc' = "done"
    /\ UNCHANGED <<file, ci, email_col, first_name_col, last_name_col, ri, loaded>>
    /\ UNCHANGED <<dvars, rvars, uvars>>

\* one iteration of "for col in df.columns"
LoadColumn ==
    /\ lpc = "columns"
    /\ ci < Len(file.columns)
    /\ LET col == file.columns[ci + 1] IN
         /\ email_col' = Assign(email_col, "email", col)
         /\ first_name_col' = Assign(first_name_col, "first_name", col)
         /\ last_name_col' = Assign(last_name_col, "last_name", col)
    /\ ci' = ci + 1
    /\ UNCHANGED <<file, lpc, ri, loaded, loadResult>>
    /\ UNCHANGED <<dvars, rvars, uvars>>

\* missing = [] ... missing.append(...)
Missing(e, f, l) ==
    (IF e = NoneCol THEN <<"email">> ELSE <<>>)
    \o (IF f = NoneCol THEN <<"first_name">> ELSE <<>>)
    \o (IF l = NoneCol THEN <<"last_name">> ELSE <<>>)

\* if missing: raise ValueError(...), caught and wrapped by the except clause
LoadCheck ==
    /\ lpc = "columns"
    /\ ci >= Len(file.columns)
    /\ LET missing == Missing(email_col, first_name_col, last_name_col) IN
       IF missing # <<>>
       THEN /\ loadResult' = LoadRaised(Wrap(MissingColumnsError(missing, file.columns)))
            /\ lpc' = "done"
       ELSE /\ lpc' = "rows"
            /\ UNCHANGED loadResult
    /\ UNCHANGED <<file, ci, email_col, first_name_col, last_name_col, ri, loaded>>
    /\ UNCHANGED <<dvars, rvars, uvars>>

\* row[col] for a row of the frame
CellOf(row, columns, col) == row[CHOOSE k \in DOMAIN columns : columns[k] = col]

\* str(row[col]).strip()
Field(row, columns, col) == Strip(PyStr(CellOf(row, columns, col)))

\* the format check is left out
KeepsNonEmpty(email) == email # <<>>

\* if email and is_valid_email(email)
Keeps(email) == email # <<>> /\ is_valid_email(email)

\* the list "recipients" after the loop body ran for row
LoadedAfter(rs, row, columns, ecol, fcol, lcol) ==
    LET email == Field(row, columns, ecol) IN
    IF Keeps(email)
    THEN Append(rs, [email |-> email,
                     first_name |-> Field(row, columns, fcol),
                     last_name |-> Field(row, columns, lcol)])
    ELSE rs

\* one iteration of "for row in df.iter_rows(named=True)"
LoadRow ==
    /\ lpc = "rows"
    /\ ri < Len(file.rows)
    /\ loaded' = LoadedAfter(loaded, file.rows[ri + 1], file.columns,
                             email_col, first_name_col, last_name_col)
    /\ ri' = ri + 1
    /\ UNCHANGED <<file, lpc, ci, email_col, first_name_col, last_name_col, loadResult>>
    /\ UNCHANGED <<dvars, rvars, uvars>>

\* return recipients
LoadReturn ==
    /\ lpc = "rows"
    /\ ri >= Len(file.rows)
    /\ loadResult' = LoadReturned(loaded)
    /\ lpc' = "done"
    /\ UNCHANGED <<file, ci, email_col, first_name_col, last_name_col, ri, loaded>>
    /\ UNCHANGED <<dvars, rvars, uvars>>

(***************************************************************************)
(* format_email_body.                                                      *)
(***************************************************************************)
\* most pieces a template body is put together from
MaxPieces == 3

TokEmail == <<"{", "e", "m", "a", "i", "l", "}">>
TokFirstName == <<"{", "f", "i", "r", "s", "t", "_", "n", "a", "m", "e", "}">>
TokLastName == <<"{", "l", "a", "s", "t", "_", "n", "a", "m", "e", "}">>
TokUnknown == <<"{", "x", "}">>

\* what a template body is put together from: text, the three tokens, an unknown
\* token, an opening brace, the tail of a token
BodyPieces == {<<"T">>, TokEmail, TokFirstName, TokLastName, TokUnknown, <<"{">>,
               <<"n", "a", "m", "e", "}">>}

RECURSIVE Flatten(_)
Flatten(pieces) ==
    IF pieces = <<>> THEN <<>> ELSE Head(pieces) \o Flatten(Tail(pieces))

Templates == {Flatten(p) : p \in SeqsUpTo(BodyPieces, MaxPieces)}

\* recipients as load_csv builds them: a valid address, any stripped names
RenderRecipients ==
    {[email |-> EmailA, first_name |-> f, last_name |-> l] :
        f \in {<<"A", "l">>, TokLastName, <<"l", "a", "s", "t", "_">>},
        l \in {<<"N", "g">>, TokFirstName}}

\* only the first occurrence is replaced
RECURSIVE ReplaceOnceFrom(_, _, _, _)
ReplaceOnceFrom(s, old, new, k) ==
    IF k > Len(s) THEN <<>>
    ELSE IF k + Len(old) - 1 <= Len(s) /\ SubSeq(s, k, k + Len(old) - 1) = old
         THEN new \o SubSeq(s, k + Len(old), Len(s))
         ELSE <<s[k]>> \o ReplaceOnceFrom(s, old, new, k + 1)

ReplaceOnce(s, old, new) == ReplaceOnceFrom(s, old, new, 1)

\* str.replace(old, new): every occurrence, found left to right, not overlapping
RECURSIVE ReplaceFrom(_, _, _, _)
ReplaceFrom(s, old, new, k) ==
    IF k > Len(s) THEN <<>>
    ELSE IF k + Len(old) - 1 <= Len(s) /\ SubSeq(s, k, k + Len(old) - 1) = old
         THEN new \o ReplaceFrom(s, old, new, k + Len(old))
         ELSE <<s[k]>> \o ReplaceFrom(s, old, new, k + 1)

Replace(s, old, new) == ReplaceFrom(s, old, new, 1)

\* f"Dear {recipient['first_name']} {recipient['last_name']},\n\n"
Greeting(r) ==
    <<"D", "e", "a", "r", " ">> \o r.first_name \o <<" ">> \o r.last_name
        \o <<",", "\n", "\n">>

\* body = greeting + template
RenderCombine ==
    /\ rpc = "call"
    /\ body' = Greeting(recipient) \o template
    /\ rpc' = "email"
    /\ UNCHANGED <<template, recipient>>
    /\ UNCHANGED <<dvars, lvars, uvars>>

\* body = body.replace("{email}", recipient["email"])
RenderEmail ==
    /\ rpc = "email"
    /\ body' = Replace(body, TokEmail, recipient.email)
    /\ rpc' = "first_name"
    /\ UNCHANGED <<template, recipient>>
    /\ UNCHANGED <<dvars, lvars, uvars>>

\* body = body.replace("{first_name}", recipient["first_name"])
RenderFirstName ==
    /\ rpc = "first_name"
    /\ body' = Replace(body, TokFirstName, recipient.first_name)
    /\ rpc' = "last_name"
    /\ UNCHANGED <<template, recipient>>
    /\ UNCHANGED <<dvars, lvars, uvars>>

\* body = body.replace("{last_name}", recipient["last_name"]); return body
RenderLastName ==
    /\ rpc = "last_name"
    /\ body' = Replace(body, TokLastName, recipient.last_name)
    /\ rpc' = "done"
    /\ UNCHANGED <<template, recipient>>
    /\ UNCHANGED <<dvars, lvars, uvars>>

(***************************************************************************)
(* EmailThread.run: the caller of send_emails.                             *)
(***************************************************************************)
\* f"Successfully sent {len(self.recipients)} emails!" / f"Error sending emails: {str(e)}"
FinishedSignal(o, rs) ==
    IF o.how = "returned"
    THEN [success |-> TRUE, message |-> <<"Successfully sent ", Len(rs), " emails!">>]
    ELSE [success |-> FALSE, message |-> <<"Error sending emails: ", o.text>>]

RunFinished ==
    /\ pc = "ended"
    /\ finished' = Append(finished, FinishedSignal(outcome, recipients))
    /\ pc' = "done"
    /\ UNCHANGED <<lvars, rvars, uvars>>
    /\ UNCHANGED <<recipients, settings, letter, hasCallback, called, i, failed, progress, conn,
                   wire, outcome>>

\* no load_csv call in progress
LoaderIdle ==
    /\ file = UnreadableFile
    /\ lpc = "idle"
    /\ ci = 0
    /\ email_col = NoneCol
    /\ first_name_col = NoneCol
    /\ last_name_col = NoneCol
    /\ ri = 0
    /\ loaded = <<>>
    /\ loadResult = LoadRunning

\* the settings tab as init_ui fills it: SMTP, port 587, TLS checked, the rest empty
DefaultWidgets ==
    [provider_combo |-> "SMTP", server |-> <<>>, port |-> 587, use_tls |-> TRUE,
     email |-> <<>>, password |-> <<>>, aws_access_key |-> <<>>,
     aws_secret_key |-> <<>>, aws_region |-> <<"r">>, ses_sender_email |-> <<>>]

\* no format_email_body call in progress
RenderIdle ==
    /\ template = <<>>
    /\ recipient = RecipientA
    /\ rpc = "idle"
    /\ body = <<>>

\* the window as MainWindow.__init__ leaves it, with the settings tab untouched
UiIdle ==
    /\ winRecipients = <<>>
    /\ lastGood = <<>>
    /\ countLabel = -1
    /\ subjectInput = <<>>
    /\ bodyInput = <<>>
    /\ widgets = DefaultWidgets
    /\ sendEnabled = TRUE
    /\ confirm = "none"
    /\ handled = FALSE
    /\ overlap = FALSE

\* no dispatch in progress
DispatchIdle ==
    /\ recipients = <<>>
    /\ settings = [provider |-> "smtp"]
    /\ letter = [subject |-> <<>>, body_template |-> <<>>]
    /\ hasCallback = FALSE
    /\ pc = "idle"
    /\ called = <<>>
    /\ i = 0
    /\ failed = <<>>
    /\ progress = <<>>
    /\ conn = "none"
    /\ wire = <<>>
    /\ outcome = NotEnded
    /\ finished = <<>>

(***************************************************************************)
(* The dispatch specification: one EmailThread run over every input.       *)
(***************************************************************************)
Init ==
    /\ recipients \in RecipientLists
    /\ settings \in SettingsSet
    /\ letter = [subject |-> <<"S">>, body_template |-> <<"T">>]
    /\ hasCallback \in BOOLEAN
    /\ pc = "run"
    /\ called = <<>>
    /\ i = 0
    /\ failed = <<>>
    /\ progress = <<>>
    /\ conn = "none"
    /\ wire = <<>>
    /\ outcome = NotEnded
    /\ finished = <<>>
    /\ LoaderIdle
    /\ RenderIdle
    /\ UiIdle

Next ==
    \/ SendEmails
    \/ SmtpConnect
    \/ SmtpStartTls
    \/ SmtpLogin
    \/ SmtpSend
    \/ SmtpQuit
    \/ SmtpReport
    \/ SesImport
    \/ SesClient
    \/ SesSend
    \/ SesReport
    \/ RunFinished

Spec == Init /\ [][Next]_vars

(***************************************************************************)
(* The loader specification: one load_csv call over every file.            *)
(***************************************************************************)
LoadInit ==
    /\ file \in Files
    /\ lpc = "read"
    /\ ci = 0
    /\ email_col = NoneCol
    /\ first_name_col = NoneCol
    /\ last_name_col = NoneCol
    /\ ri = 0
    /\ loaded = <<>>
    /\ loadResult = LoadRunning
    /\ DispatchIdle
    /\ RenderIdle
    /\ UiIdle

LoadNext ==
    \/ LoadRead
    \/ LoadColumn
    \/ LoadCheck
    \/ LoadRow
    \/ LoadReturn

SpecLoad == LoadInit /\ [][LoadNext]_vars

(***************************************************************************)
(* The renderer specification: one format_email_body call over every       *)
(* template and recipient.                                                 *)
(***************************************************************************)
RenderInit ==
    /\ template \in Templates
    /\ recipient \in RenderRecipients
    /\ rpc = "call"
    /\ body = <<>>
    /\ DispatchIdle
    /\ LoaderIdle
    /\ UiIdle

RenderNext ==
    \/ RenderCombine
    \/ RenderEmail
    \/ RenderFirstName
    \/ RenderLastName

SpecRender == RenderInit /\ [][RenderNext]_vars

(***************************************************************************)
(* The window: SettingsWidget and MainWindow.                              *)
(***************************************************************************)
\* the settings tab filled in for SMTP and for SES
SmtpWidgets ==
    [DefaultWidgets EXCEPT !.server = <<"h">>, !.email = EmailA, !.password = <<"p">>]

SesWidgets ==
    [DefaultWidgets EXCEPT !.provider_combo = "AWS SES", !.aws_access_key = <<"k">>,
                           !.aws_secret_key = <<"s">>, !.ses_sender_email = EmailA]

\* an address is_valid_email rejects
BadEmail == <<"a", "@", "b">>

\* the states the user puts the settings tab in
WidgetStates ==
    {DefaultWidgets,
     SmtpWidgets,
     [SmtpWidgets EXCEPT !.use_tls = FALSE],
     [SmtpWidgets EXCEPT !.email = BadEmail, !.ses_sender_email = EmailA],
     [SmtpWidgets EXCEPT !.password = <<>>],
     SesWidgets,
     [SesWidgets EXCEPT !.ses_sender_email = BadEmail, !.email = EmailA],
     [SesWidgets EXCEPT !.aws_secret_key = <<>>]}

\* the texts the user types into the subject line and the body editor
SubjectTexts == {<<>>, <<" ">>, <<"S">>}
BodyTexts == {<<"\n">>, <<"T">>}

\* SettingsWidget.get_settings: a new dictionary at every call
get_settings(w) ==
    IF w.provider_combo = "AWS SES"
    THEN [provider |-> "ses",
          aws_access_key |-> w.aws_access_key,
          aws_secret_key |-> w.aws_secret_key,
          aws_region |-> w.aws_region,
          sender_email |-> w.ses_sender_email]
    ELSE [provider |-> "smtp",
          smtp_server |-> w.server,
          smtp_port |-> w.port,
          use_tls |-> w.use_tls,
          sender_email |-> w.email,
          sender_password |-> w.password]

Accepted == [ok |-> TRUE, message |-> "None"]
Rejected(message) == [ok |-> FALSE, message |-> message]

\* settings.get(key) is falsy: the key is absent or its text is empty
Unset(s, key) == DictGet(s, key, <<>>) = <<>>

\* the password is not asked for
validate_email_settings_no_password(s) ==
    IF DictGet(s, "provider", "smtp") = "ses"
    THEN IF Unset(s, "aws_access_key") THEN Rejected("AWS Access Key ID is required")
         ELSE IF Unset(s, "aws_secret_key") THEN Rejected("AWS Secret Access Key is required")
         ELSE IF Unset(s, "aws_region") THEN Rejected("AWS Region is required")
         ELSE IF Unset(s, "sender_email") THEN Rejected("Sender email is required")
         ELSE IF ~is_valid_email(s["sender_email"]) THEN Rejected("Invalid sender email format")
         ELSE Accepted
    ELSE IF Unset(s, "smtp_server") THEN Rejected("SMTP server is required")
         ELSE IF DictGet(s, "smtp_port", 0) = 0 THEN Rejected("SMTP port is required")
         ELSE IF Unset(s, "sender_email") THEN Rejected("Sender email is required")
         ELSE IF ~is_valid_email(s["sender_email"]) THEN Rejected("Invalid sender email format")
         ELSE Accepted

\* utils.validate_email_settings
validate_email_settings(s) ==
    IF DictGet(s, "provider", "smtp") = "ses"
    THEN IF Unset(s, "aws_access_key") THEN Rejected("AWS Access Key ID is required")
         ELSE IF Unset(s, "aws_secret_key") THEN Rejected("AWS Secret Access Key is required")
         ELSE IF Unset(s, "aws_region") THEN Rejected("AWS Region is required")
         ELSE IF Unset(s, "sender_email") THEN Rejected("Sender email is required")
         ELSE IF ~is_valid_email(s["sender_email"]) THEN Rejected("Invalid sender email format")
         ELSE Accepted
    ELSE IF Unset(s, "smtp_server") THEN Rejected("SMTP server is required")
         ELSE IF DictGet(s, "smtp_port", 0) = 0 THEN Rejected("SMTP port is required")
         ELSE IF Unset(s, "sender_email") THEN Rejected("Sender email is required")
         ELSE IF ~is_valid_email(s["sender_email"]) THEN Rejected("Invalid sender email format")
         ELSE IF Unset(s, "sender_password") THEN Rejected("Sender password is required")
         ELSE Accepted

\* the column a role has after the first k columns of the "for col" loop
RECURSIVE ColumnAfter(_, _, _)
ColumnAfter(columns, role, k) ==
    IF k = 0 THEN NoneCol ELSE Assign(ColumnAfter(columns, role, k - 1), role, columns[k])

\* the list "recipients" after the first k rows of the "for row" loop
RECURSIVE RowsAfter(_, _, _, _, _)
RowsAfter(f, ecol, fcol, lcol, k) ==
    IF k = 0 THEN <<>>
    ELSE LoadedAfter(RowsAfter(f, ecol, fcol, lcol, k - 1), f.rows[k], f.columns,
                     ecol, fcol, lcol)

\* utils.load_csv as one call: what it raises or returns for a file
load_csv(f) ==
    IF ~f.readable THEN LoadRaised(Wrap(ReadError))
    ELSE LET ecol == ColumnAfter(f.columns, "email", Len(f.columns))
             fcol == ColumnAfter(f.columns, "first_name", Len(f.columns))
             lcol == ColumnAfter(f.columns, "last_name", Len(f.columns))
             missing == Missing(ecol, fcol, lcol)
         IN IF missing # <<>>
            THEN LoadRaised(Wrap(MissingColumnsError(missing, f.columns)))
            ELSE LoadReturned(RowsAfter(f, ecol, fcol, lcol, Len(f.rows)))

\* the rows of the files the user picks
RowA == <<TextCell(EmailA), TextCell(<<"A", "l">>), TextCell(<<"N", "g">>)>>
RowB == <<TextCell(EmailB), NullCell, TextCell(<<"N", "g">>)>>
RowBad == <<TextCell(BadEmail), TextCell(<<"A", "l">>), TextCell(<<"N", "g">>)>>

CsvFile(columns, rows) == [readable |-> TRUE, columns |-> columns, rows |-> rows]

\* the files the user picks: two valid rows, one valid row after an invalid
\* one, only an invalid row, no first and last name columns, not readable
WindowFiles ==
    {CsvFile(<<ColEmail, ColFirstName, ColLastName>>, <<RowA, RowB>>),
     CsvFile(<<ColEmail, ColFirstName, ColLastName>>, <<RowBad, RowB>>),
     CsvFile(<<ColEmail, ColFirstName, ColLastName>>, <<RowBad>>),
     CsvFile(<<ColEmail, ColPhone>>, <<>>),
     UnreadableFile}

\* load_csv(file_path) for each of these files
LoadResults == [f \in WindowFiles |-> load_csv(f)]

\* the list written in place, so that the thread holding it sees the new content
ThreadRecipientsAfterLoadInPlace(held, result) == result

\* self.recipients = load_csv(file_path) binds the window's attribute to a new
\* list; the list object an EmailThread holds is not written
ThreadRecipientsAfterLoad(held, result) == held

\* f"Loaded {len(self.recipients)} recipients"
CountShown(rs) == Len(rs)

\* MainWindow.load_csv
WindowLoadCsv(f) ==
    /\ LET result == LoadResults[f] IN
       IF result.how = "raised"
       THEN UNCHANGED <<winRecipients, lastGood, countLabel, recipients>>
       ELSE /\ winRecipients' = result.value
            /\ lastGood' = result.value
            /\ recipients' = ThreadRecipientsAfterLoad(recipients, result.value)
            /\ IF result.value = <<>>
               THEN UNCHANGED countLabel
               ELSE countLabel' = CountShown(result.value)
    /\ UNCHANGED <<subjectInput, bodyInput, widgets, sendEnabled, confirm, handled, overlap>>
    /\ UNCHANGED <<settings, letter, hasCallback, pc, called, i, failed, progress, conn, wire,
                   outcome, finished>>
    /\ UNCHANGED <<lvars, rvars>>

\* the user edits the subject line
EditSubject(text) ==
    /\ subjectInput' = text
    /\ UNCHANGED <<winRecipients, lastGood, countLabel, bodyInput, widgets, sendEnabled,
                   confirm, handled, overlap>>
    /\ UNCHANGED <<dvars, lvars, rvars>>

\* the user edits the body
EditBody(text) ==
    /\ bodyInput' = text
    /\ UNCHANGED <<winRecipients, lastGood, countLabel, subjectInput, widgets, sendEnabled,
                   confirm, handled, overlap>>
    /\ UNCHANGED <<dvars, lvars, rvars>>

\* the user edits the settings tab
EditSettings(w) ==
    /\ widgets' = w
    /\ UNCHANGED <<winRecipients, lastGood, countLabel, subjectInput, bodyInput, sendEnabled,
                   confirm, handled, overlap>>
    /\ UNCHANGED <<dvars, lvars, rvars>>

\* validate_email_settings(settings) for the settings of each state of the tab
Validations == [w \in WidgetStates |-> validate_email_settings(get_settings(w))]

\* the button is left enabled
SendButtonLeftEnabled(enabled) == enabled

\* self.send_btn.setEnabled(False)
SendButtonAfterStart(enabled) == FALSE

\* the answers QMessageBox.question returns
Replies == {"Yes", "No"}

\* MainWindow.send_emails, the slot of the Send button; a disabled button
\* emits no click
WindowSendEmails(reply) ==
    /\ sendEnabled
    /\ LET s == get_settings(widgets)
           asked == /\ winRecipients # <<>>
                    /\ Strip(subjectInput) # <<>>
                    /\ Strip(bodyInput) # <<>>
                    /\ Validations[widgets].ok
       IN /\ confirm' = IF asked THEN reply ELSE "none"
          /\ IF asked /\ reply # "No"
             THEN /\ sendEnabled' = SendButtonAfterStart(sendEnabled)
                  /\ recipients' = winRecipients
                  /\ settings' = s
                  /\ letter' = [subject |-> subjectInput, body_template |-> bodyInput]
                  /\ hasCallback' = TRUE
                  /\ pc' = "run"
                  /\ called' = <<>>
                  /\ i' = 0
                  /\ failed' = <<>>
                  /\ progress' = <<>>
                  /\ conn' = "none"
                  /\ wire' = <<>>
                  /\ outcome' = NotEnded
                  /\ finished' = <<>>
                  /\ handled' = FALSE
                  /\ overlap' = (overlap \/ pc \notin {"idle", "done"})
             ELSE UNCHANGED <<dvars, sendEnabled, handled, overlap>>
    /\ UNCHANGED <<winRecipients, lastGood, countLabel, subjectInput, bodyInput, widgets>>
    /\ UNCHANGED <<lvars, rvars>>

\* MainWindow.sending_finished, the slot of the thread's finished signal
SendingFinished ==
    /\ finished # <<>>
    /\ ~handled
    /\ sendEnabled' = TRUE
    /\ handled' = TRUE
    /\ UNCHANGED <<winRecipients, lastGood, countLabel, subjectInput, bodyInput, widgets,
                   confirm, overlap>>
    /\ UNCHANGED <<dvars, lvars, rvars>>

(***************************************************************************)
(* The window specification: the user loads files, edits and presses Send  *)
(* while the threads started from the window run.                          *)
(***************************************************************************)
WindowInit ==
    /\ UiIdle
    /\ DispatchIdle
    /\ LoaderIdle
    /\ RenderIdle

WindowNext ==
    \/ \E f \in WindowFiles : WindowLoadCsv(f)
    \/ \E text \in SubjectTexts : EditSubject(text)
    \/ \E text \in BodyTexts : EditBody(text)
    \/ \E w \in WidgetStates : EditSettings(w)
    \/ \E reply \in Replies : WindowSendEmails(reply)
    \/ SendingFinished
    \/ SendEmails
    \/ SmtpConnect
    \/ SmtpStartTls
    \/ SmtpLogin
    \/ SmtpSend
    \/ SmtpQuit
    \/ SmtpReport
    \/ SesImport
    \/ SesClient
    \/ SesSend
    \/ SesReport
    \/ RunFinished

SpecWindow == WindowInit /\ [][WindowNext]_vars

(***************************************************************************)
(* What the mail library saw, read off the wire.                           *)
(***************************************************************************)
SessionCalls == {"SMTP", "starttls", "login", "import boto3", "client"}
IsSend(c) == c.call \in {"send_message", "send_email"}
IsFailedSend(c) == IsSend(c) /\ ~c.ok
IsAcceptedSend(c) == IsSend(c) /\ c.ok

Sends == SelectSeq(wire, IsSend)
FailedSends == SelectSeq(wire, IsFailedSend)
AcceptedSends == SelectSeq(wire, IsAcceptedSend)

\* establishing the session failed
SessionFailed ==
    \/ \E k \in DOMAIN wire : wire[k].call \in SessionCalls /\ ~wire[k].ok
    \/ pc \in {"ended", "done"} /\ wire = <<>>

\* the session was established
Connected == \E k \in DOMAIN wire : wire[k].call \in {"login", "client"} /\ wire[k].ok

CallEnded == pc \in {"ended", "done"}

\* the send loop has run over the whole list
LoopDone == Connected /\ pc \in {"smtp_report", "ended", "done"}

ConnectionErrorTexts ==
    {"Failed to connect to SMTP server: ",
     "boto3 is required for AWS SES. Install it with: pip install boto3",
     "Failed to create AWS SES client: "}

(***************************************************************************)
(* Claims on the dispatch pipeline, checked under Spec.                    *)
(***************************************************************************)

\* C1: when establishing the session fails (SMTP connect, STARTTLS or login; SES
\* import or client construction), the call raises a connection-level error, no
\* message is submitted for any recipient and no progress event is emitted.
C1_SessionFailureSendsNothing ==
    SessionFailed =>
        /\ outcome.how = "raised"
        /\ outcome.text[1] \in ConnectionErrorTexts
        /\ Sends = <<>>
        /\ progress = <<>>
        /\ failed = <<>>

C1_Witness ==
    /\ pc = "done"
    /\ hasCallback
    /\ total >= 2
    /\ Len(wire) = 3
    /\ wire[2] = Call("starttls", TRUE, <<>>, "")
    /\ wire[3] = Call("login", FALSE, <<>>, "")

\* C2: once connected, every recipient is attempted exactly once, in list order,
\* whatever the outcome of earlier attempts: a failed attempt (for SES a
\* ClientError or any other exception) is recorded and the loop goes on.
C2_EveryRecipientAttemptedInOrder ==
    /\ Len(Sends) <= total
    /\ \A k \in DOMAIN Sends : Sends[k].to = recipients[k].email
    /\ Len(failed) = Len(FailedSends)
    /\ LoopDone => Len(Sends) = total
    /\ (Connected /\ ~LoopDone) => pc \in {"smtp_loop", "ses_loop"}

C2_Witness ==
    /\ pc = "done"
    /\ total >= 4
    /\ Len(Sends) = total
    /\ Sends[1].reason = "MessageRejected"
    /\ Sends[2].reason = "timed out"
    /\ Sends[3].ok
    /\ ~Sends[total].ok

\* C3: the SMTP transport closes its server connection on every exit path, also
\* when the session was opened and STARTTLS or authentication then failed: no
\* call ends with a connection that was opened and never closed.
C3_ConnectionClosedOnEveryExit == CallEnded => conn # "open"

\* C4: with a progress callback, a connected dispatch over n recipients emits
\* exactly n events, one per attempt; the k-th has current = k, total = n and the
\* message "Sent to <email_k> (k/n)" or "Failed: <email_k>" by the attempt's outcome.
C4_OneProgressEventPerAttempt ==
    hasCallback =>
        /\ Len(progress) = Len(Sends)
        /\ LoopDone => Len(progress) = total
        /\ \A k \in DOMAIN progress :
             progress[k] =
                [current |-> k, total |-> total,
                 message |-> IF Sends[k].ok
                             THEN <<"Sent to ", recipients[k].email, " (", k, "/", total, ")">>
                             ELSE <<"Failed: ", recipients[k].email>>]

C4_Witness ==
    /\ pc = "done"
    /\ hasCallback
    /\ total >= 3
    /\ Len(progress) = total
    /\ ~Sends[2].ok
    /\ Sends[3].ok

C7_OneTransportByProvider ==
    pc # "run" =>
        LET wanted == IF "provider" \in DOMAIN settings /\ settings.provider = "ses"
                      THEN "ses" ELSE "smtp" IN
        /\ Len(called) = 1
        /\ called[1].transport = wanted
        /\ called[1].recipients = recipients
        /\ \A k \in DOMAIN wire :
             wire[k].call \in IF wanted = "ses"
                              THEN {"import boto3", "client", "send_email"}
                              ELSE {"SMTP", "starttls", "login", "send_message", "quit"}
        /\ (pc = "done") => (finished[1].success <=> outcome.how = "returned")

C7_Witness ==
    /\ pc = "done"
    /\ "provider" \in DOMAIN settings
    /\ settings.provider = "imap"
    /\ total >= 1
    /\ Len(Sends) = total

(***************************************************************************)
(* Claims on the recipient loader, checked under SpecLoad.                 *)
(***************************************************************************)
\* the matching rules of the three roles, each taken alone
QualifiesFor(role, col) ==
    CASE role = "email" -> IsEmailName(Lower(col))
      [] role = "first_name" -> IsFirstName(Lower(col))
      [] role = "last_name" -> IsLastName(Lower(col))

\* a column counts for the first role, in the order email, first name, last name,
\* whose rule its name matches
CountsFor(role, col) ==
    CASE role = "email" -> QualifiesFor("email", col)
      [] role = "first_name" ->
            ~QualifiesFor("email", col) /\ QualifiesFor("first_name", col)
      [] role = "last_name" ->
            /\ ~QualifiesFor("email", col)
            /\ ~QualifiesFor("first_name", col)
            /\ QualifiesFor("last_name", col)

Roles == <<"email", "first_name", "last_name">>

ResolvedCol(role) ==
    CASE role = "email" -> email_col
      [] role = "first_name" -> first_name_col
      [] role = "last_name" -> last_name_col

\* the column resolution loop is over
Resolved == lpc \in {"rows", "done"} /\ file.readable

\* positions of the columns of the file that satisfy Test for the role
QualifyingAt(role) == {k \in DOMAIN file.columns : QualifiesFor(role, file.columns[k])}
CountingAt(role) == {k \in DOMAIN file.columns : CountsFor(role, file.columns[k])}

\* the recipients are built from the columns at positions e, f, l
BuiltFrom(value, e, f, l) ==
    \A k \in DOMAIN value : \E r \in DOMAIN file.rows :
        value[k] = [email |-> Strip(PyStr(file.rows[r][e])),
                    first_name |-> Strip(PyStr(file.rows[r][f])),
                    last_name |-> Strip(PyStr(file.rows[r][l]))]

Lowest(S) == CHOOSE k \in S : \A m \in S : k <= m
Highest(S) == CHOOSE k \in S : \A m \in S : m <= k

\* C8 as stated: when several columns qualify for a role, the loader uses the
\* first qualifying column in file column order, for every role and column order.
C8_FirstQualifyingColumnWins ==
    Resolved =>
        \A n \in DOMAIN Roles :
            Cardinality(QualifyingAt(Roles[n])) >= 2 =>
                ResolvedCol(Roles[n]) = file.columns[Lowest(QualifyingAt(Roles[n]))]

\* C8 amended: for every role and column order the loader uses the last column,
\* in file column order, that counts for the role, a column counting for the first
\* of email, first name, last name whose rule it matches; the recipients returned
\* are built from those columns.
C8_LastCountingColumnWins ==
    Resolved =>
        /\ \A n \in DOMAIN Roles :
             ResolvedCol(Roles[n]) =
                IF CountingAt(Roles[n]) = {} THEN NoneCol
                ELSE file.columns[Highest(CountingAt(Roles[n]))]
        /\ loadResult.how = "returned" =>
             BuiltFrom(loadResult.value, Highest(CountingAt("email")),
                       Highest(CountingAt("first_name")), Highest(CountingAt("last_name")))

C8_Witness ==
    /\ lpc = "done"
    /\ loadResult.how = "returned"
    /\ Len(loadResult.value) = 1
    /\ Cardinality(CountingAt("email")) = 2
    /\ Lowest(CountingAt("email")) = 1
    /\ loadResult.value[1].email = StampCell(Highest(CountingAt("email"))).text

\* C9: load fails with the MissingColumns error (ValueError) exactly when a role
\* has no qualifying column; the error names exactly the unresolved roles and lists
\* the available columns, and is distinguishable from LoadError; a file in which
\* each role has a qualifying column never fails with MissingColumns.
C9_MissingColumnsExactlyWhenUnresolved ==
    lpc = "done" =>
        LET unresolved == SelectSeq(Roles, LAMBDA r : QualifyingAt(r) = {}) IN
        IF ~file.readable
        THEN loadResult.how = "raised" /\ loadResult.error.type # "ValueError"
        ELSE IF unresolved # <<>>
        THEN /\ loadResult.how = "raised"
             /\ loadResult.error.type = "ValueError"
             /\ loadResult.error.text[2] = unresolved
             /\ loadResult.error.text[4] = file.columns
        ELSE loadResult.how = "returned"

\* C10: for a file whose roles resolve, load returns exactly the rows whose
\* stripped email field is non-empty and passes the syntax check: in file row
\* order, duplicates kept, the other rows dropped without error; every recipient
\* returned has a valid email and has first_name and last_name.
C10_ValidRowsInFileOrder ==
    (lpc = "done" /\ file.readable /\ Missing(email_col, first_name_col, last_name_col) = <<>>) =>
        LET cols == file.columns
            rows == file.rows
            e == CHOOSE k \in DOMAIN cols : cols[k] = email_col
            f == CHOOSE k \in DOMAIN cols : cols[k] = first_name_col
            l == CHOOSE k \in DOMAIN cols : cols[k] = last_name_col
            mail(r) == Strip(PyStr(rows[r][e]))
            keep == {r \in DOMAIN rows : mail(r) # <<>> /\ is_valid_email(mail(r))}
            nth(k) == CHOOSE r \in keep : Cardinality({q \in keep : q <= r}) = k
            value == loadResult.value
        IN
        /\ loadResult.how = "returned"
        /\ Len(value) = Cardinality(keep)
        /\ \A k \in DOMAIN value :
             /\ value[k].email = mail(nth(k))
             /\ value[k].first_name = Strip(PyStr(rows[nth(k)][f]))
             /\ value[k].last_name = Strip(PyStr(rows[nth(k)][l]))
             /\ is_valid_email(value[k].email)
             /\ DOMAIN value[k] = {"email", "first_name", "last_name"}

C10_Witness ==
    /\ lpc = "done"
    /\ Len(file.rows) = 3
    /\ file.rows[2][1] = TextCell(<<"a", "@", "b", ".", "c">>)
    /\ file.rows[3][2] = NullCell
    /\ Len(loadResult.value) = 2
    /\ loadResult.value[1] = loadResult.value[2]
    /\ loadResult.value[2].first_name = <<"N", "o", "n", "e">>

(***************************************************************************)
(* Claims on the template renderer, checked under SpecRender.              *)
(***************************************************************************)
\* tok is found at position k of t
StartsAt(t, k, tok) == k + Len(tok) - 1 <= Len(t) /\ SubSeq(t, k, k + Len(tok) - 1) = tok

\* the field a token stands for, for the token that starts at position k of t
TokenAt(t, k) ==
    IF StartsAt(t, k, TokEmail) THEN "email"
    ELSE IF StartsAt(t, k, TokFirstName) THEN "first_name"
    ELSE IF StartsAt(t, k, TokLastName) THEN "last_name"
    ELSE "none"

TokenLen(field) ==
    CASE field = "email" -> Len(TokEmail)
      [] field = "first_name" -> Len(TokFirstName)
      [] field = "last_name" -> Len(TokLastName)

\* t with every token replaced by the field of r it names, in one pass
RECURSIVE Substituted(_, _, _)
Substituted(t, r, k) ==
    IF k > Len(t) THEN <<>>
    ELSE IF TokenAt(t, k) # "none"
         THEN r[TokenAt(t, k)] \o Substituted(t, r, k + TokenLen(TokenAt(t, k)))
         ELSE <<t[k]>> \o Substituted(t, r, k + 1)

\* the greeting from the field values, then the body with its tokens replaced
Rendering(t, r) ==
    <<"D", "e", "a", "r", " ">> \o r.first_name \o <<" ">> \o r.last_name
        \o <<",", "\n", "\n">> \o Substituted(t, r, 1)

BraceFree(s) == \A k \in DOMAIN s : s[k] \notin {"{", "}"}

\* no opening brace inside an open brace
NotNested(t) ==
    \A k, m \in DOMAIN t :
        (k < m /\ t[k] = "{" /\ t[m] = "{") => \E j \in (k + 1)..(m - 1) : t[j] = "}"

\* C11 as stated: for every body and recipient, also for field values that
\* contain a token, the result is the greeting built from the actual field values
\* followed by the body with each of the three tokens replaced by its field and
\* every other {...} left verbatim.
C11_GreetingThenSubstitutedBody ==
    rpc = "done" => body = Rendering(template, recipient)

\* C11 amended: the same holds for every recipient whose field values contain
\* neither "{" nor "}" and every body in which no "{" is opened inside an open
\* "{".
C11_RenderingOfPlainFields ==
    (/\ rpc = "done"
     /\ BraceFree(recipient.email)
     /\ BraceFree(recipient.first_name)
     /\ BraceFree(recipient.last_name)
     /\ NotNested(template)) => body = Rendering(template, recipient)

C11_Witness ==
    /\ rpc = "done"
    /\ template = TokFirstName \o TokUnknown \o TokFirstName
    /\ recipient.first_name = <<"A", "l">>
    /\ recipient.last_name = <<"N", "g">>
    /\ body = <<"D", "e", "a", "r", " ", "A", "l", " ", "N", "g", ",", "\n", "\n",
                "A", "l", "{", "x", "}", "A", "l">>

(***************************************************************************)
(* Claims on the order of the SMTP steps, checked under Spec.              *)
(***************************************************************************)
\* positions of the calls of one kind on the wire
CallsAt(name) == {k \in DOMAIN wire : wire[k].call = name}

\* C12: within one SMTP dispatch the steps occur only in the order open,
\* (STARTTLS when use_tls is set, after the open and before authentication),
\* login, the submissions, close: authentication completes before the first
\* submission, nothing is submitted after the close, and the close comes after
\* the last recipient attempt and before the aggregate failure is raised.
C12_SmtpStepOrder ==
    (pc # "run" /\ called[1].transport = "smtp") =>
        /\ \A k \in CallsAt("SMTP") : k = 1
        /\ \A k \in CallsAt("starttls") : k = 2 /\ settings["use_tls"] /\ wire[1].ok
        /\ \A k \in CallsAt("login") :
             /\ k = IF settings["use_tls"] THEN 3 ELSE 2
             /\ \A j \in 1..(k - 1) : wire[j].ok
        /\ \A k \in CallsAt("send_message") :
             /\ \E j \in CallsAt("login") : j < k /\ wire[j].ok
             /\ \A j \in CallsAt("quit") : k < j
        /\ \A k \in CallsAt("quit") :
             /\ k = Len(wire)
             /\ Cardinality(CallsAt("send_message")) = total
        /\ Cardinality(CallsAt("quit")) <= 1
        /\ (conn = "open") <=> (CallsAt("SMTP") # {} /\ wire[1].ok /\ CallsAt("quit") = {})
        /\ (conn = "closed") <=> (CallsAt("quit") # {})
        /\ (CallEnded /\ Connected) => CallsAt("quit") # {}
        /\ (CallsAt("quit") # {} /\ pc = "smtp_report") => outcome.how = "running"

C12_Witness ==
    /\ pc = "done"
    /\ total = 2
    /\ Len(wire) = 6
    /\ wire[2] = Call("starttls", TRUE, <<>>, "")
    /\ wire[3] = Call("login", TRUE, <<>>, "")
    /\ wire[4].ok
    /\ ~wire[5].ok
    /\ wire[6].call = "quit"
    /\ outcome.how = "raised"

(***************************************************************************)
(* The window and its threads.                                             *)
(***************************************************************************)
\* a thread was started from the window and the window has not yet handled
\* its finished signal
InFlight == pc # "idle" /\ ~handled

\* the step starts a thread
Started == pc' = "run" /\ pc # "run"

\* C13: at most one dispatch is in flight at any time: no thread is started
\* while another one runs, the Send button is disabled from the start of a
\* thread until its finished signal is handled, a run emits finished once, at
\* its end and with success exactly when send_emails returned, and once the
\* signal is handled the button is enabled again; a disabled button always has
\* a step of the thread or the handling of its signal ahead of it.
C13_OneDispatchInFlight ==
    /\ ~overlap
    /\ InFlight => ~sendEnabled
    /\ Len(finished) <= 1
    /\ (pc # "idle") => (Len(finished) = 1 <=> pc = "done")
    /\ (pc = "done") => (finished[1].success <=> outcome.how = "returned")
    /\ handled => (sendEnabled /\ pc = "done")
    /\ ~sendEnabled => (InFlight /\ ENABLED (Next \/ SendingFinished))

C13_Witness ==
    /\ pc = "done"
    /\ handled
    /\ sendEnabled
    /\ Len(recipients) = 2
    /\ Len(FailedSends) = 1
    /\ ~finished[1].success

\* what the settings tab must hold for the active provider
Filled(text) == Len(text) >= 1

SettingsAcceptable(w) ==
    IF w.provider_combo = "AWS SES"
    THEN /\ Filled(w.aws_access_key)
         /\ Filled(w.aws_secret_key)
         /\ Filled(w.aws_region)
         /\ Filled(w.ses_sender_email)
         /\ PatternMatches(w.ses_sender_email)
    ELSE /\ Filled(w.server)
         /\ w.port >= 1
         /\ Filled(w.email)
         /\ PatternMatches(w.email)
         /\ Filled(w.password)

NonBlank(text) == \E k \in DOMAIN text : text[k] \notin Whitespace

AcceptableStates == {w \in WidgetStates : SettingsAcceptable(w)}

ReadyToSend ==
    /\ Len(winRecipients) >= 1
    /\ NonBlank(subjectInput)
    /\ NonBlank(bodyInput)
    /\ widgets \in AcceptableStates

\* C14: a thread is started only by a step taken with a non-empty recipient
\* list, a non-blank subject, a non-blank body, acceptable settings of the
\* active provider and the answer Yes; while no thread runs, a step taken
\* without all of these starts none and leaves the wire as it was.
C14_StartOnlyWhenReadyAndConfirmed ==
    [][/\ Started => (ReadyToSend /\ confirm' = "Yes")
       /\ (pc \in {"idle", "done"} /\ ~(ReadyToSend /\ confirm' = "Yes"))
              => (pc' = pc /\ wire' = wire /\ conn' = conn)]_vars

C14_Witness ==
    /\ pc = "run"
    /\ confirm = "Yes"
    /\ settings["provider"] = "ses"
    /\ wire = <<>>
    /\ Len(recipients) = 2

\* C15: while a thread is in flight no step changes the recipient list, the
\* subject, the body or the settings it holds, whatever is loaded or edited in
\* the window; every send goes to the next recipient of that list and every
\* progress event carries the length of that list as its total.
C15_InFlightWorksOnCapturedInput ==
    [][(InFlight /\ ~Started) =>
          /\ recipients' = recipients
          /\ settings' = settings
          /\ letter' = letter
          /\ (Len(wire') > Len(wire) /\ IsSend(wire'[Len(wire')]))
                => wire'[Len(wire')].to = recipients[Len(Sends) + 1].email
          /\ (Len(progress') > Len(progress))
                => progress'[Len(progress')].total = Len(recipients)]_vars

C15_Witness ==
    /\ pc = "smtp_loop"
    /\ Len(recipients) = 2
    /\ Len(Sends) = 1
    /\ Len(progress) = 1
    /\ winRecipients # recipients
    /\ winRecipients # <<>>
    /\ get_settings(widgets) # settings
    /\ letter.subject # subjectInput

\* C16: the window's recipient list is what the most recent load that did not
\* raise returned, and the count shown in the preview is the length of that
\* list (nothing is shown while nothing was loaded).
C16_ListAndCountFollowLastGoodLoad ==
    /\ winRecipients = lastGood
    /\ \/ countLabel = -1 /\ winRecipients = <<>>
       \/ countLabel = Len(winRecipients)

====
